---- MODULE Spec2Model ----
(***************************************************************************)
(* Product Resource Service: the request handlers of service/routes.py    *)
(* over the Product/Category model layer (service/models.py, which is not  *)
(* part of the sources at hand and is modelled from its specification and  *)
(* from the expectations of tests/test_models.py).                         *)
(***************************************************************************)
EXTENDS Integers, Sequences, FiniteSets, TLC

(***************************************************************************)
(* Bounds of the model.                                                    *)
(***************************************************************************)
\* The storage sequence hands out the ids 1..MaxId; no create past that.
MaxId == 3
\* With requests served side by side, the ids handed out are 1..MaxConcId.
MaxConcId == 2

(***************************************************************************)
(* Status codes (service.common.status).                                   *)
(***************************************************************************)
HTTP_200_OK == 200
HTTP_201_CREATED == 201
HTTP_204_NO_CONTENT == 204
HTTP_400_BAD_REQUEST == 400
HTTP_404_NOT_FOUND == 404
HTTP_415_UNSUPPORTED_MEDIA_TYPE == 415

\* Python's None for Product.id before the product is persisted.
None == -1

(***************************************************************************)
(* Decimal prices.  A decimal string is a sequence of one-character        *)
(* strings; a Decimal is its coefficient and its number of fractional      *)
(* digits, as Python's decimal.Decimal keeps them ("12.50" is 1250 with 2  *)
(* fractional digits, and is equal to, but not the same as, "12.5").       *)
(***************************************************************************)
DigitChars == <<"0", "1", "2", "3", "4", "5", "6", "7", "8", "9">>

DigitVal(c) == (CHOOSE i \in 1..10 : DigitChars[i] = c) - 1

RECURSIVE DigitsToNat(_)
DigitsToNat(ds) ==
    IF ds = <<>> THEN 0
    ELSE 10 * DigitsToNat(SubSeq(ds, 1, Len(ds) - 1)) + DigitVal(ds[Len(ds)])

RECURSIVE NatToDigits(_)
NatToDigits(n) ==
    IF n < 10 THEN <<DigitChars[n + 1]>>
    ELSE Append(NatToDigits(n \div 10), DigitChars[(n % 10) + 1])

RECURSIVE Zeros(_)
Zeros(k) == IF k <= 0 THEN <<>> ELSE <<"0">> \o Zeros(k - 1)

RECURSIVE Pow10(_)
Pow10(k) == IF k <= 0 THEN 1 ELSE 10 * Pow10(k - 1)

\* Position of the decimal point in s, 0 when there is none.
PointPos(s) ==
    IF \E i \in 1..Len(s) : s[i] = "."
    THEN CHOOSE i \in 1..Len(s) : s[i] = "."
    ELSE 0

\* Decimal(str): parse a decimal string into coefficient and scale.
Decimal(s) ==
    LET p == PointPos(s)
        ds == IF p = 0 THEN s ELSE SubSeq(s, 1, p - 1) \o SubSeq(s, p + 1, Len(s))
    IN  [coeff |-> DigitsToNat(ds),
         scale |-> IF p = 0 THEN 0 ELSE Len(s) - p]

\* str(Decimal): the exact decimal string, fractional digits kept.
DecimalStr(d) ==
    LET ds == NatToDigits(d.coeff)
        dotplace == Len(ds) - d.scale
    IN  IF d.scale = 0 THEN ds
        ELSE IF dotplace <= 0 THEN <<"0", ".">> \o Zeros(0 - dotplace) \o ds
        ELSE SubSeq(ds, 1, dotplace) \o <<".">> \o SubSeq(ds, dotplace + 1, Len(ds))

\* Decimal.__eq__: numeric equality, whatever the scales.
DecimalEq(a, b) == a.coeff * Pow10(b.scale) = b.coeff * Pow10(a.scale)

(***************************************************************************)
(* Model layer (service/models.py): entities and persistence.              *)
(***************************************************************************)
\* The Category rows, created before any Product refers to them.
Categories == {[id |-> 1, name |-> "Tech"], [id |-> 2, name |-> "Food"]}

\* Product(): a fresh in-memory instance, nothing set.
NewProduct ==
    [id |-> None, name |-> "", description |-> "",
     price |-> [coeff |-> 0, scale |-> 0], available |-> FALSE, category_id |-> None]

\* The keys deserialize reads, in the order it reads them.
RequiredKeys == <<"name", "description", "price", "available", "category_id">>

\* The value deserialize stores for key k: price parsed into a Decimal,
\* available coerced with bool(), category_id with int().
Coerce(k, v) ==
    CASE k = "price" -> Decimal(v)
      [] k = "available" -> (v = TRUE)
      [] k = "category_id" -> v
      [] OTHER -> v

RECURSIVE AssignFrom(_, _, _)
AssignFrom(product, data, i) ==
    IF i > Len(RequiredKeys)
    THEN [err |-> "none", product |-> product]
    ELSE LET k == RequiredKeys[i]
         IN  IF k \notin data.keys
             THEN [err |-> "AttributeError", product |-> product]
             ELSE AssignFrom([product EXCEPT ![k] = Coerce(k, data[k])], data, i + 1)

\* Product.deserialize(data): TypeError unless data is a mapping,
\* AttributeError at the first required key that is absent; the fields are
\* assigned one by one onto the instance, and id is taken when the mapping
\* carries one.
deserialize(product, data) ==
    IF data.kind # "mapping"
    THEN [err |-> "TypeError", product |-> product]
    ELSE LET r == AssignFrom(product, data, 1)
         IN  IF r.err = "none" /\ "id" \in data.keys
             THEN [r EXCEPT !.product.id = data.id]
             ELSE r

\* Product.serialize(): the wire mapping, price as its decimal string.
serialize(product) ==
    [id |-> product.id, name |-> product.name, description |-> product.description,
     price |-> DecimalStr(product.price), available |-> product.available,
     category_id |-> product.category_id]

\* Product.create(): insert under a fresh id of the storage sequence.
create(product, db) ==
    LET p == [product EXCEPT !.id = db.nextId]
    IN  [product |-> p,
         db |-> [products |-> [i \in DOMAIN db.products \cup {p.id} |->
                                 IF i = p.id THEN p ELSE db.products[i]],
                 nextId |-> db.nextId + 1]]

\* Product.update(): overwrite the row keyed by product.id.
update(product, db) ==
    [db EXCEPT !.products =
        [i \in DOMAIN db.products |-> IF i = product.id THEN product ELSE db.products[i]]]

\* Product.delete(): remove the row keyed by product.id.
delete(product, db) ==
    [db EXCEPT !.products = [i \in DOMAIN db.products \ {product.id} |-> db.products[i]]]

\* Product.find(id): the row, or <<>> for None; callers test truthiness.
Product_find(id, db) ==
    IF id \in DOMAIN db.products THEN <<db.products[id]>> ELSE <<>>

RECURSIVE SortedIds(_)
SortedIds(S) ==
    IF S = {} THEN <<>>
    ELSE LET m == CHOOSE x \in S : \A y \in S : x <= y
         IN  <<m>> \o SortedIds(S \ {m})

\* The rows with ids in S, in storage (id) order.
Rows(S, db) ==
    LET ids == SortedIds(S) IN [i \in 1..Len(ids) |-> db.products[ids[i]]]

Product_all(db) == Rows(DOMAIN db.products, db)

Product_find_by_name(name, db) ==
    Rows({i \in DOMAIN db.products : db.products[i].name = name}, db)

Product_find_by_availability(available, db) ==
    Rows({i \in DOMAIN db.products : db.products[i].available = available}, db)

Product_find_by_category(category, db) ==
    Rows({i \in DOMAIN db.products : db.products[i].category_id = category.id}, db)

\* Category.find_by_name(name): the category, or <<>> for None.
Category_find_by_name(name) ==
    IF \E c \in Categories : c.name = name
    THEN <<CHOOSE c \in Categories : c.name = name>>
    ELSE <<>>

(***************************************************************************)
(* Request handler (service/routes.py).  A handler is a function of the    *)
(* request and the storage state db = [products, nextId]; it yields the    *)
(* response and the storage state it leaves.                               *)
(***************************************************************************)
\* A Python value is falsy when it is None (<<>>) or the empty string.
Truthy(arg) == arg # <<>> /\ arg[1] # ""

\* str.lower() on the values the available parameter takes.
Lower(s) ==
    CASE s = "True" -> "true"
      [] s = "TRUE" -> "true"
      [] s = "False" -> "false"
      [] OTHER -> s

\* abort(status, message): the error response; storage is left as it was
\* (what the handler assigned in memory is dropped with the request).
Abort(status, db) ==
    [response |-> [status |-> status, kind |-> "error", body |-> <<>>, location |-> None],
     db |-> db]

\* TRUE when the request passes the gate, FALSE when it aborts with 415.
\* Mutant: the gate only asks that the header is there.
check_content_type_present(headers, content_type) ==
    IF headers = <<>> THEN FALSE ELSE TRUE

check_content_type(headers, content_type) ==
    IF headers = <<>> THEN FALSE
    ELSE IF headers[1] = content_type THEN TRUE
    ELSE FALSE

\* Mutant: the row is inserted under the id the payload carried, when it
\* carried one (the id deserialize took is not replaced by a generated one).
create_products_keeps_id(request, db) ==
    IF ~check_content_type(request.content_type, "application/json")
    THEN Abort(HTTP_415_UNSUPPORTED_MEDIA_TYPE, db)
    ELSE LET d == deserialize(NewProduct, request.data)
         IN  IF d.err # "none"
             THEN Abort(HTTP_400_BAD_REQUEST, db)
             ELSE LET p == IF d.product.id # None THEN d.product
                           ELSE [d.product EXCEPT !.id = db.nextId]
                  IN  [response |-> [status |-> HTTP_201_CREATED, kind |-> "object",
                                     body |-> <<serialize(p)>>, location |-> p.id],
                       db |-> [products |-> [i \in DOMAIN db.products \cup {p.id} |->
                                               IF i = p.id THEN p ELSE db.products[i]],
                               nextId |-> db.nextId + 1]]

\* Mutant: only TypeError is caught; a missing key is not answered 400 and
\* the product is created with what was assigned.
create_products_type_only(request, db) ==
    IF ~check_content_type(request.content_type, "application/json")
    THEN Abort(HTTP_415_UNSUPPORTED_MEDIA_TYPE, db)
    ELSE LET d == deserialize(NewProduct, request.data)
         IN  IF d.err = "TypeError"
             THEN Abort(HTTP_400_BAD_REQUEST, db)
             ELSE LET c == create(d.product, db)
                  IN  [response |-> [status |-> HTTP_201_CREATED, kind |-> "object",
                                     body |-> <<serialize(c.product)>>,
                                     location |-> c.product.id],
                       db |-> c.db]

\* Mutant: the 201 echoes the request's fields under the new id instead of
\* serializing the product created.
create_products_echo(request, db) ==
    IF ~check_content_type(request.content_type, "application/json")
    THEN Abort(HTTP_415_UNSUPPORTED_MEDIA_TYPE, db)
    ELSE LET d == deserialize(NewProduct, request.data)
         IN  IF d.err # "none"
             THEN Abort(HTTP_400_BAD_REQUEST, db)
             ELSE LET c == create(d.product, db)
                      data == request.data
                  IN  [response |-> [status |-> HTTP_201_CREATED, kind |-> "object",
                                     body |-> <<[id |-> c.product.id, name |-> data.name,
                                                 description |-> data.description,
                                                 price |-> data.price,
                                                 available |-> data.available,
                                                 category_id |-> data.category_id]>>,
                                     location |-> c.product.id],
                       db |-> c.db]

create_products(request, db) ==
    IF ~check_content_type(request.content_type, "application/json")
    THEN Abort(HTTP_415_UNSUPPORTED_MEDIA_TYPE, db)
    ELSE LET d == deserialize(NewProduct, request.data)
         IN  IF d.err # "none"
             THEN Abort(HTTP_400_BAD_REQUEST, db)
             ELSE LET c == create(d.product, db)
                  IN  [response |-> [status |-> HTTP_201_CREATED, kind |-> "object",
                                     body |-> <<serialize(c.product)>>,
                                     location |-> c.product.id],
                       db |-> c.db]

\* The list response for the rows found.
ListResponse(products, db) ==
    [response |-> [status |-> HTTP_200_OK, kind |-> "array",
                   body |-> [i \in 1..Len(products) |-> serialize(products[i])],
                   location |-> None],
     db |-> db]

\* Mutant: category is looked at before name.
list_products_category_first(request, db) ==
    LET name == request.args.name
        category == request.args.category
        available == request.args.available
    IN  IF Truthy(category)
        THEN LET category_obj == Category_find_by_name(category[1])
             IN  IF category_obj = <<>> THEN ListResponse(<<>>, db)
                 ELSE ListResponse(Product_find_by_category(category_obj[1], db), db)
        ELSE IF Truthy(name) THEN ListResponse(Product_find_by_name(name[1], db), db)
        ELSE IF Truthy(available)
        THEN ListResponse(Product_find_by_availability(Lower(available[1]) = "true", db), db)
        ELSE ListResponse(Product_all(db), db)

\* Mutant: a category that does not exist is answered 404.
list_products_category_404(request, db) ==
    LET name == request.args.name
        category == request.args.category
        available == request.args.available
    IN  IF Truthy(name) THEN ListResponse(Product_find_by_name(name[1], db), db)
        ELSE IF Truthy(category)
        THEN LET category_obj == Category_find_by_name(category[1])
             IN  IF category_obj = <<>> THEN Abort(HTTP_404_NOT_FOUND, db)
                 ELSE ListResponse(Product_find_by_category(category_obj[1], db), db)
        ELSE IF Truthy(available)
        THEN ListResponse(Product_find_by_availability(Lower(available[1]) = "true", db), db)
        ELSE ListResponse(Product_all(db), db)

\* Mutant: the available parameter is compared with "true" as it came.
list_products_no_lower(request, db) ==
    LET name == request.args.name
        category == request.args.category
        available == request.args.available
    IN  IF Truthy(name) THEN ListResponse(Product_find_by_name(name[1], db), db)
        ELSE IF Truthy(category)
        THEN LET category_obj == Category_find_by_name(category[1])
             IN  IF category_obj = <<>> THEN ListResponse(<<>>, db)
                 ELSE ListResponse(Product_find_by_category(category_obj[1], db), db)
        ELSE IF Truthy(available)
        THEN ListResponse(Product_find_by_availability(available[1] = "true", db), db)
        ELSE ListResponse(Product_all(db), db)

list_products(request, db) ==
    LET name == request.args.name
        category == request.args.category
        available == request.args.available
    IN  IF Truthy(name) THEN ListResponse(Product_find_by_name(name[1], db), db)
        ELSE IF Truthy(category)
        THEN LET category_obj == Category_find_by_name(category[1])
             IN  IF category_obj = <<>> THEN ListResponse(<<>>, db)
                 ELSE ListResponse(Product_find_by_category(category_obj[1], db), db)
        ELSE IF Truthy(available)
        THEN LET is_available == Lower(available[1]) = "true"
             IN  ListResponse(Product_find_by_availability(is_available, db), db)
        ELSE ListResponse(Product_all(db), db)

get_products(request, db) ==
    LET product == Product_find(request.product_id, db)
    IN  IF product = <<>>
        THEN Abort(HTTP_404_NOT_FOUND, db)
        ELSE [response |-> [status |-> HTTP_200_OK, kind |-> "object",
                            body |-> <<serialize(product[1])>>, location |-> None],
              db |-> db]

\* Mutant: a PUT on an id without a row stores the payload under that id.
update_products_upsert(request, db) ==
    IF ~check_content_type(request.content_type, "application/json")
    THEN Abort(HTTP_415_UNSUPPORTED_MEDIA_TYPE, db)
    ELSE LET product == Product_find(request.product_id, db)
             d == deserialize(IF product = <<>> THEN NewProduct ELSE product[1],
                              request.data)
         IN  IF d.err # "none"
             THEN Abort(HTTP_400_BAD_REQUEST, db)
             ELSE LET p == [d.product EXCEPT !.id = request.product_id]
                  IN  [response |-> [status |-> HTTP_200_OK, kind |-> "object",
                                     body |-> <<serialize(p)>>, location |-> None],
                       db |-> [db EXCEPT !.products =
                                 [i \in DOMAIN db.products \cup {p.id} |->
                                    IF i = p.id THEN p ELSE db.products[i]]]]

\* Mutant: the id the payload carried is not overwritten with the path id.
update_products_payload_id(request, db) ==
    IF ~check_content_type(request.content_type, "application/json")
    THEN Abort(HTTP_415_UNSUPPORTED_MEDIA_TYPE, db)
    ELSE LET product == Product_find(request.product_id, db)
         IN  IF product = <<>>
             THEN Abort(HTTP_404_NOT_FOUND, db)
             ELSE LET d == deserialize(product[1], request.data)
                  IN  IF d.err # "none"
                      THEN Abort(HTTP_400_BAD_REQUEST, db)
                      ELSE [response |-> [status |-> HTTP_200_OK, kind |-> "object",
                                          body |-> <<serialize(d.product)>>,
                                          location |-> None],
                            db |-> update(d.product, db)]

update_products(request, db) ==
    IF ~check_content_type(request.content_type, "application/json")
    THEN Abort(HTTP_415_UNSUPPORTED_MEDIA_TYPE, db)
    ELSE LET product == Product_find(request.product_id, db)
         IN  IF product = <<>>
             THEN Abort(HTTP_404_NOT_FOUND, db)
             ELSE LET d == deserialize(product[1], request.data)
                  IN  IF d.err # "none"
                      THEN Abort(HTTP_400_BAD_REQUEST, db)
                      ELSE LET p == [d.product EXCEPT !.id = request.product_id]
                           IN  [response |-> [status |-> HTTP_200_OK, kind |-> "object",
                                              body |-> <<serialize(p)>>,
                                              location |-> None],
                                db |-> update(p, db)]

\* Mutant: a DELETE on an id without a row is answered 404.
delete_products_strict(request, db) ==
    LET product == Product_find(request.product_id, db)
    IN  IF product = <<>>
        THEN Abort(HTTP_404_NOT_FOUND, db)
        ELSE [response |-> [status |-> HTTP_204_NO_CONTENT, kind |-> "empty",
                            body |-> <<>>, location |-> None],
              db |-> delete(product[1], db)]

delete_products(request, db) ==
    LET product == Product_find(request.product_id, db)
    IN  [response |-> [status |-> HTTP_204_NO_CONTENT, kind |-> "empty", body |-> <<>>,
                       location |-> None],
         db |-> IF product # <<>> THEN delete(product[1], db) ELSE db]

(***************************************************************************)
(* Requests a client can send.                                             *)
(***************************************************************************)
\* The Content-Type header: absent, the required value, other values.
ContentTypes ==
    {<<>>, <<"application/json">>, <<"plain/text">>, <<"application/json; charset=utf-8">>}

\* A JSON object with the given keys present.
Mapping(keys, id, name, description, price, available, category_id) ==
    [kind |-> "mapping", keys |-> keys, id |-> id, name |-> name,
     description |-> description, price |-> price, available |-> available,
     category_id |-> category_id]

AllKeys == {"name", "description", "price", "available", "category_id"}

\* Well-formed Product payloads, with and without an id of their own.
ValidPayloads ==
    { Mapping(AllKeys, None, "Hat", "A red hat", <<"1", "2", ".", "5", "0">>, TRUE, 1),
      Mapping(AllKeys \cup {"id"}, 1, "Hat", "Updated", <<"1", "2", ".", "5">>, FALSE, 2),
      Mapping(AllKeys \cup {"id"}, 7, "Shoe", "A red hat", <<"0", ".", "0", "5">>, TRUE, 2),
      Mapping(AllKeys, None, "Shoe", "Updated", <<"0", "1", "2", ".", "5", "0">>, FALSE, 1) }

\* Payloads deserialize rejects: a JSON object lacking required keys
\* (one key, all but name, all of them), and bodies that are no object.
InvalidPayloads ==
    { Mapping(AllKeys \ {k}, None, "Hat", "A red hat", <<"9", "9", ".", "9", "9">>, TRUE, 1) :
        k \in AllKeys }
    \cup { Mapping({"name"}, None, "Test", "", <<"0">>, FALSE, None),
           Mapping({}, None, "", "", <<"0">>, FALSE, None) }
    \cup { [Mapping({}, None, "", "", <<"0">>, FALSE, None) EXCEPT !.kind = k] :
             k \in {"string", "null"} }

Payloads == ValidPayloads \cup InvalidPayloads

\* Ids a path can name: 0 (never a row) and every id storage can hand out.
PathIds == 0..MaxId

\* Query parameters: absent (<<>>) or present with a value, possibly empty.
NameArgs == {<<>>, <<"">>, <<"Hat">>, <<"Shoe">>}
CategoryArgs == {<<>>, <<"">>, <<"Tech">>, <<"Toys">>}
AvailableArgs == {<<>>, <<"">>, <<"True">>, <<"true">>, <<"False">>}

NoArgs == [name |-> <<>>, category |-> <<>>, available |-> <<>>]
NoData == [Mapping({}, None, "", "", <<"0">>, FALSE, None) EXCEPT !.kind = "none"]

Request(method, product_id, content_type, data, args) ==
    [method |-> method, product_id |-> product_id, content_type |-> content_type,
     data |-> data, args |-> args]

(***************************************************************************)
(* State.                                                                  *)
(***************************************************************************)
VARIABLES
    products,   \* the Product table: id -> row
    nextId,     \* the next id of the storage sequence
    request,    \* the request handled last
    response,   \* the response it got
    before,     \* the storage state that request was handled in
    inflight    \* per worker of the host: the request it is in the middle of

vars == <<products, nextId, request, response, before, inflight>>

Db == [products |-> products, nextId |-> nextId]

NoRequest == Request("NONE", 0, <<>>, NoData, NoArgs)
NoResponse == [status |-> 0, kind |-> "none", body |-> <<>>, location |-> None]

\* The workers of the host that serve requests side by side.
Workers == {"w1", "w2"}

\* A worker's request context: where its handler stands (pc), the request,
\* the product its session holds (<<>> for none) and the response, once set.
Context(pc, req, product, resp) ==
    [pc |-> pc, request |-> req, product |-> product, response |-> resp]

Idle == Context("idle", NoRequest, <<>>, NoResponse)

Init ==
    /\ products = <<>>
    /\ nextId = 1
    /\ request = NoRequest
    /\ response = NoResponse
    /\ before = [products |-> <<>>, nextId |-> 1]
    /\ inflight = [w \in Workers |-> Idle]

\* One request, handled start to end against the current storage state.
\* Requests are handled one at a time: the next is taken once the response
\* to the last has been sent.
Handle(req, result) ==
    /\ request = NoRequest
    /\ result.db.nextId <= MaxId + 1
    /\ request' = req
    /\ response' = result.response
    /\ products' = result.db.products
    /\ nextId' = result.db.nextId
    /\ before' = Db
    /\ UNCHANGED inflight

\* The response is sent and the request context torn down: nothing of the
\* request is kept, storage stays as the handler left it.
SendResponse ==
    /\ request # NoRequest
    /\ request' = NoRequest
    /\ response' = NoResponse
    /\ before' = Db
    /\ UNCHANGED <<products, nextId, inflight>>

PostProducts ==
    \E content_type \in ContentTypes, data \in Payloads :
        LET req == Request("POST", 0, content_type, data, NoArgs)
        IN  Handle(req, create_products(req, Db))

ListProducts ==
    \E name \in NameArgs, category \in CategoryArgs, available \in AvailableArgs :
        LET req == Request("LIST", 0, <<>>, NoData,
                           [name |-> name, category |-> category, available |-> available])
        IN  Handle(req, list_products(req, Db))

GetProducts ==
    \E product_id \in PathIds :
        LET req == Request("GET", product_id, <<>>, NoData, NoArgs)
        IN  Handle(req, get_products(req, Db))

PutProducts ==
    \E product_id \in PathIds, content_type \in ContentTypes, data \in Payloads :
        LET req == Request("PUT", product_id, content_type, data, NoArgs)
        IN  Handle(req, update_products(req, Db))

DeleteProducts ==
    \E product_id \in PathIds :
        LET req == Request("DELETE", product_id, <<>>, NoData, NoArgs)
        IN  Handle(req, delete_products(req, Db))

Next ==
    \/ PostProducts
    \/ ListProducts
    \/ GetProducts
    \/ PutProducts
    \/ DeleteProducts
    \/ SendResponse

Spec == Init /\ [][Next]_vars

(***************************************************************************)
(* Properties.  In a state where a response is pending, before is the      *)
(* storage state the request was handled in and Db the one it left.        *)
(***************************************************************************)
PassesGate == request.content_type = <<"application/json">>

Entries(body) == {body[i] : i \in 1..Len(body)}

\* The serialized rows of table whose id is in S.
Serialized(S, table) == {serialize(table[i]) : i \in S}

\* ListOf(S): the response is 200 with exactly the rows of S, once each.
ListsExactly(S) ==
    /\ response.status = HTTP_200_OK
    /\ response.kind = "array"
    /\ Entries(response.body) = Serialized(S, before.products)
    /\ Len(response.body) = Cardinality(S)

GetRequest(id) == Request("GET", id, <<>>, NoData, NoArgs)

\* C1: a PUT on an id that has no row never creates or changes a row,
\* whatever its headers and body; when it passes the content-type gate (it
\* declares the JSON payload it sends) the answer is 404, whatever the payload.
UpdateNeverCreates ==
    (request.method = "PUT" /\ request.product_id \notin DOMAIN before.products) =>
        /\ Db = before
        /\ request.product_id \notin DOMAIN products
        /\ PassesGate => response.status = HTTP_404_NOT_FOUND
        /\ response.status \in {HTTP_404_NOT_FOUND, HTTP_415_UNSUPPORTED_MEDIA_TYPE}

\* C1 witness: a valid payload PUT to an absent id of a non-empty store got 404.
UpdateNotFoundReached ==
    /\ request.method = "PUT"
    /\ request.data \in ValidPayloads
    /\ before.products # <<>>
    /\ request.product_id \notin DOMAIN before.products
    /\ response.status = HTTP_404_NOT_FOUND

\* C2: DELETE answers 204 with an empty body whether or not the id exists;
\* afterwards the id has no row (GET on it answers 404), every other row is
\* as it was, and the same DELETE again answers the same and changes nothing.
DeleteIdempotent ==
    request.method = "DELETE" =>
        /\ response.status = HTTP_204_NO_CONTENT
        /\ response.body = <<>>
        /\ response.kind = "empty"
        /\ request.product_id \notin DOMAIN products
        /\ DOMAIN products = DOMAIN before.products \ {request.product_id}
        /\ \A i \in DOMAIN products : products[i] = before.products[i]
        /\ nextId = before.nextId
        /\ get_products(GetRequest(request.product_id), Db).response.status
              = HTTP_404_NOT_FOUND
        /\ delete_products(request, Db) = [response |-> response, db |-> Db]

\* C2 witness: a DELETE removed an existing row and left another in place.
DeleteReached ==
    /\ request.method = "DELETE"
    /\ request.product_id \in DOMAIN before.products
    /\ products # <<>>
    /\ response.status = HTTP_204_NO_CONTENT

\* C3: a POST or PUT whose Content-Type is missing or is not exactly
\* application/json answers 415 and leaves the store unchanged, whatever the
\* body and whether or not the target id exists.
ContentTypeGate ==
    (request.method \in {"POST", "PUT"} /\ ~PassesGate) =>
        /\ response.status = HTTP_415_UNSUPPORTED_MEDIA_TYPE
        /\ Db = before

\* C3 witness: a PUT of a valid payload to an existing id under another
\* content type was turned away with 415.
WrongContentTypeReached ==
    /\ request.method = "PUT"
    /\ request.content_type = <<"plain/text">>
    /\ request.data \in ValidPayloads
    /\ request.product_id \in DOMAIN before.products
    /\ response.status = HTTP_415_UNSUPPORTED_MEDIA_TYPE

\* The filter a list request is answered with when the query parameters
\* are taken in the order name, category, available and a parameter counts
\* as given when Given(arg) holds: the ids of the rows it selects.
Selected(Given(_)) ==
    LET args == request.args
        rows == before.products
    IN  IF Given(args.name)
        THEN {i \in DOMAIN rows : rows[i].name = args.name[1]}
        ELSE IF Given(args.category)
        THEN {i \in DOMAIN rows :
                \E c \in Categories : c.name = args.category[1] /\ rows[i].category_id = c.id}
        ELSE IF Given(args.available)
        THEN {i \in DOMAIN rows : rows[i].available = (Lower(args.available[1]) = "true")}
        ELSE DOMAIN rows

Supplied(arg) == arg # <<>>

\* The same list request carrying its name parameter alone.
NameAlone == [request EXCEPT !.args.category = <<>>, !.args.available = <<>>]

\* C4 as stated: a list request that supplies both name and category,
\* whatever the two values, is answered like the same request with name alone.
NameFilterWinsWhenSupplied ==
    (/\ request.method = "LIST"
     /\ Supplied(request.args.name)
     /\ Supplied(request.args.category)) =>
        response = list_products(NameAlone, before).response

\* C4 as amended: a list request that supplies a non-empty name together
\* with a category is answered like the same request with name alone, by the
\* rows of that name; the filters are tried in the order name, category,
\* available, where an empty value is passed over like an absent parameter,
\* the first one given is the one applied, and all rows are listed only when
\* none is given.
NameFilterWinsWhenNonEmpty ==
    request.method = "LIST" =>
        /\ (Truthy(request.args.name) /\ Supplied(request.args.category)) =>
              /\ response = list_products(NameAlone, before).response
              /\ ListsExactly({i \in DOMAIN before.products :
                                 before.products[i].name = request.args.name[1]})
        /\ ListsExactly(Selected(Truthy))
        /\ Db = before

\* C4 witness: name and category were both given, the category selects a
\* row the name does not, and the answer holds the rows of that name only.
NameAndCategoryReached ==
    /\ request.method = "LIST"
    /\ request.args.name = <<"Hat">>
    /\ request.args.category = <<"Tech">>
    /\ \E i \in DOMAIN before.products :
          before.products[i].name = "Shoe" /\ before.products[i].category_id = 1
    /\ \E i \in DOMAIN before.products :
          before.products[i].name = "Hat" /\ before.products[i].category_id = 2
    /\ Len(response.body) > 0

\* C5: a list request filtered by category (no name filter ahead of it)
\* answers 200 with an empty list when no category has that name, and otherwise
\* with exactly the products whose category_id is that category's id.
CategoryFilter ==
    (request.method = "LIST" /\ ~Truthy(request.args.name) /\ Truthy(request.args.category)) =>
        /\ response.status = HTTP_200_OK
        /\ response.kind = "array"
        /\ (\A c \in Categories : c.name # request.args.category[1]) => response.body = <<>>
        /\ \A c \in Categories :
              c.name = request.args.category[1] =>
                  ListsExactly({i \in DOMAIN before.products :
                                  before.products[i].category_id = c.id})
        /\ Db = before

\* C5 witness: the store holds products and the category named does not exist.
CategoryMissReached ==
    /\ request.method = "LIST"
    /\ request.args.name = <<>>
    /\ request.args.category = <<"Toys">>
    /\ before.products # <<>>
    /\ response.status = HTTP_200_OK
    /\ response.body = <<>>

\* C9: available=True with no name or category parameter answers 200 with
\* exactly the stored products that are available: each entry is available,
\* none is missing, and the length is their number.
AvailabilityFilter ==
    (/\ request.method = "LIST"
     /\ request.args.name = <<>>
     /\ request.args.category = <<>>
     /\ request.args.available = <<"True">>) =>
        /\ ListsExactly({i \in DOMAIN before.products : before.products[i].available})
        /\ \A e \in Entries(response.body) : e.available = TRUE
        /\ Len(response.body) =
              Cardinality({i \in DOMAIN before.products : before.products[i].available})

\* C9 witness: two available products and one that is not; the list has 2.
TwoOfThreeAvailableReached ==
    /\ request.method = "LIST"
    /\ request.args = [name |-> <<>>, category |-> <<>>, available |-> <<"True">>]
    /\ Cardinality({i \in DOMAIN before.products : before.products[i].available}) = 2
    /\ Cardinality({i \in DOMAIN before.products : ~before.products[i].available}) = 1
    /\ Len(response.body) = 2

\* Every row is stored under its own id, and every id in use was handed out
\* by the storage sequence already, so that no later create can repeat it.
IdsUnique ==
    /\ \A i \in DOMAIN products : products[i].id = i
    /\ DOMAIN products \subseteq 1..(nextId - 1)

\* C6: a POST that succeeds answers 201 and adds exactly one row, under an
\* id storage generated that no row had, whatever id the payload carried; ids
\* stay unique in every state; Location names the new id, and GET on it
\* answers 200 with the body of the 201.
CreateAssignsFreshId ==
    /\ IdsUnique
    /\ (request.method = "POST" /\ response.status \notin {HTTP_400_BAD_REQUEST,
                                                           HTTP_415_UNSUPPORTED_MEDIA_TYPE}) =>
          /\ response.status = HTTP_201_CREATED
          /\ response.kind = "object"
          /\ LET new == response.body[1].id
             IN  /\ new = before.nextId
                 /\ new \notin DOMAIN before.products
                 /\ DOMAIN products = DOMAIN before.products \cup {new}
                 /\ \A i \in DOMAIN before.products : products[i] = before.products[i]
                 /\ response.location = new
                 /\ get_products(GetRequest(response.location), Db).response
                       = [response EXCEPT !.status = HTTP_200_OK, !.location = None]

\* C6 witness: the payload carried the id of an existing row, and the row
\* created got another.
CreateWithTakenIdReached ==
    /\ request.method = "POST"
    /\ response.status = HTTP_201_CREATED
    /\ "id" \in request.data.keys
    /\ request.data.id \in DOMAIN before.products
    /\ response.body[1].id # request.data.id

\* Whether deserialize has to reject data, and with which error.
Malformed(data) ==
    IF data.kind # "mapping" THEN "TypeError"
    ELSE IF \E k \in AllKeys : k \notin data.keys THEN "AttributeError"
    ELSE "none"

\* C7: deserialize fails with a type error on what is no mapping and with an
\* attribute error when any required key is absent, whatever the other keys;
\* POST, and PUT on an existing id, answer 400 to either, and a POST answered
\* 400 creates no row.
ValidationRejects ==
    (/\ request.method \in {"POST", "PUT"}
     /\ PassesGate
     /\ request.method = "PUT" => request.product_id \in DOMAIN before.products) =>
        /\ deserialize(NewProduct, request.data).err = Malformed(request.data)
        /\ Malformed(request.data) # "none" => response.status = HTTP_400_BAD_REQUEST
        /\ (request.method = "POST" /\ response.status = HTTP_400_BAD_REQUEST) => Db = before

\* C7 witness: a POST whose payload lacks only category_id was answered 400.
MissingKeyReached ==
    /\ request.method = "POST"
    /\ request.data.kind = "mapping"
    /\ request.data.keys = AllKeys \ {"category_id"}
    /\ before.products # <<>>
    /\ response.status = HTTP_400_BAD_REQUEST

\* C8: a PUT that succeeds answers 200 and overwrites the row of the path id
\* with the payload's fields; the response and the row carry the path id even
\* if the payload carries another; no row is added or removed and every other
\* row is as it was.
UpdateOverwrites ==
    (request.method = "PUT" /\ response.status \notin {HTTP_400_BAD_REQUEST,
                                   HTTP_404_NOT_FOUND, HTTP_415_UNSUPPORTED_MEDIA_TYPE}) =>
        LET id == request.product_id
            data == request.data
        IN  /\ response.status = HTTP_200_OK
            /\ id \in DOMAIN before.products
            /\ DOMAIN products = DOMAIN before.products
            /\ nextId = before.nextId
            /\ \A i \in DOMAIN products \ {id} : products[i] = before.products[i]
            /\ products[id] = [id |-> id, name |-> data.name,
                               description |-> data.description,
                               price |-> Decimal(data.price),
                               available |-> data.available,
                               category_id |-> data.category_id]
            /\ response.body = <<serialize(products[id])>>
            /\ response.body[1].id = id

\* C8 witness: the payload carried an id other than the path's, and another
\* row was in the store.
UpdateWithOtherIdReached ==
    /\ request.method = "PUT"
    /\ response.status = HTTP_200_OK
    /\ "id" \in request.data.keys
    /\ request.data.id # request.product_id
    /\ Cardinality(DOMAIN products) > 1
    /\ products # before.products

\* The wire mapping of a response, read back as a request payload.
AsPayload(wire) ==
    Mapping(AllKeys \cup {"id"}, wire.id, wire.name, wire.description, wire.price,
            wire.available, wire.category_id)

\* C10: for a valid payload P, the body of the 201 is
\* serialize(create(deserialize(P))); deserializing it again gives P's name,
\* description, available and category_id and a price equal as a decimal to
\* P's, the price on the wire being its decimal string; only id is new.
RoundTrip ==
    (request.method = "POST" /\ response.status = HTTP_201_CREATED) =>
        LET P == request.data
            wire == response.body[1]
            back == deserialize(NewProduct, AsPayload(wire))
        IN  /\ wire = serialize(create(deserialize(NewProduct, P).product, before).product)
            /\ back.err = "none"
            /\ back.product.name = P.name
            /\ back.product.description = P.description
            /\ DecimalEq(back.product.price, Decimal(P.price))
            /\ back.product.price = Decimal(P.price)
            /\ wire.price = DecimalStr(Decimal(P.price))
            /\ back.product.available = P.available
            /\ back.product.category_id = P.category_id
            /\ back.product.id = before.nextId

\* C10 witness: a payload whose price is not written as its decimal string
\* ("012.50") was created and came back as "12.50".
RoundTripReached ==
    /\ request.method = "POST"
    /\ response.status = HTTP_201_CREATED
    /\ request.data.price = <<"0", "1", "2", ".", "5", "0">>
    /\ response.body[1].price = <<"1", "2", ".", "5", "0">>

(***************************************************************************)
(* Requests served side by side.  The host runs each request in a worker   *)
(* of its own, with a session of its own; the workers share storage only.  *)
(* A handler is then a sequence of steps, one per storage call, each a     *)
(* function of the worker's context and the storage state of the moment.   *)
(***************************************************************************)
\* A storage error is not caught by the handlers: it surfaces as a 500.
HTTP_500_INTERNAL_SERVER_ERROR == 500

\* Product.update() fails with a storage error when the row is gone.
update_fails(product, db) == product.id \notin DOMAIN db.products

\* The context once the handler has its response; what is left is to send it.
Responded(ctx, status, kind, body) ==
    [ctx EXCEPT !.pc = "respond",
                !.response = [status |-> status, kind |-> kind, body |-> body,
                              location |-> None]]

\* update_products up to the lookup: the gate, then Product.find.
update_products_find(ctx, db) ==
    IF ~check_content_type(ctx.request.content_type, "application/json")
    THEN [ctx |-> Responded(ctx, HTTP_415_UNSUPPORTED_MEDIA_TYPE, "error", <<>>), db |-> db]
    ELSE LET product == Product_find(ctx.request.product_id, db)
         IN  IF product = <<>>
             THEN [ctx |-> Responded(ctx, HTTP_404_NOT_FOUND, "error", <<>>), db |-> db]
             ELSE [ctx |-> [ctx EXCEPT !.pc = "deserialize", !.product = product],
                   db |-> db]

\* Mutant: what deserialize assigned before it failed is saved all the same.
update_products_deserialize_saves(ctx, db) ==
    LET d == deserialize(ctx.product[1], ctx.request.data)
        held == [ctx EXCEPT !.product = <<d.product>>]
    IN  IF d.err # "none"
        THEN [ctx |-> Responded(held, HTTP_400_BAD_REQUEST, "error", <<>>),
              db |-> update([d.product EXCEPT !.id = ctx.request.product_id], db)]
        ELSE [ctx |-> [held EXCEPT !.pc = "update"], db |-> db]

\* update_products from get_json to the abort: deserialize assigns onto the
\* product the session holds; nothing goes to storage.
update_products_deserialize(ctx, db) ==
    LET d == deserialize(ctx.product[1], ctx.request.data)
        held == [ctx EXCEPT !.product = <<d.product>>]
    IN  IF d.err # "none"
        THEN [ctx |-> Responded(held, HTTP_400_BAD_REQUEST, "error", <<>>), db |-> db]
        ELSE [ctx |-> [held EXCEPT !.pc = "update"], db |-> db]

\* Mutant: the product is saved whether or not its row is still there.
update_products_update_upserts(ctx, db) ==
    LET p == [ctx.product[1] EXCEPT !.id = ctx.request.product_id]
    IN  [ctx |-> Responded([ctx EXCEPT !.product = <<p>>], HTTP_200_OK, "object",
                           <<serialize(p)>>),
         db |-> [db EXCEPT !.products =
                   [i \in DOMAIN db.products \cup {p.id} |->
                      IF i = p.id THEN p ELSE db.products[i]]]]

\* update_products from product.id = product_id on: Product.update, then
\* the 200; a storage error of update is not caught.
update_products_update(ctx, db) ==
    LET p == [ctx.product[1] EXCEPT !.id = ctx.request.product_id]
        held == [ctx EXCEPT !.product = <<p>>]
    IN  IF update_fails(p, db)
        THEN [ctx |-> Responded(held, HTTP_500_INTERNAL_SERVER_ERROR, "error", <<>>),
              db |-> db]
        ELSE [ctx |-> Responded(held, HTTP_200_OK, "object", <<serialize(p)>>),
              db |-> update(p, db)]

\* delete_products up to the lookup.
delete_products_find(ctx, db) ==
    LET product == Product_find(ctx.request.product_id, db)
    IN  IF product = <<>>
        THEN [ctx |-> Responded(ctx, HTTP_204_NO_CONTENT, "empty", <<>>), db |-> db]
        ELSE [ctx |-> [ctx EXCEPT !.pc = "delete", !.product = product], db |-> db]

\* delete_products from product.delete() on.
delete_products_delete(ctx, db) ==
    [ctx |-> Responded(ctx, HTTP_204_NO_CONTENT, "empty", <<>>),
     db |-> delete(ctx.product[1], db)]

\* The requests the workers are given: payloads that deserialize accepts,
\* one it rejects after assigning four fields and one it rejects after one.
ConcPayloads ==
    {d \in ValidPayloads : d.name = "Hat"}
    \cup {d \in InvalidPayloads : d.keys = AllKeys \ {"category_id"} \/ d.keys = {"name"}}

ConcContentTypes == {<<>>, <<"application/json">>}

ConcPathIds == 0..MaxConcId

\* One step of worker w: its context and storage as the step leaves them.
Step(w, result) ==
    /\ inflight' = [inflight EXCEPT ![w] = result.ctx]
    /\ products' = result.db.products
    /\ nextId' = result.db.nextId
    /\ UNCHANGED <<request, response, before>>

\* POST /products makes one storage call: the whole handler is one step.
PostStep(w) ==
    /\ inflight[w].pc = "idle"
    /\ nextId <= MaxConcId
    /\ \E content_type \in ConcContentTypes, data \in ConcPayloads :
          LET req == Request("POST", 0, content_type, data, NoArgs)
              r == create_products(req, Db)
          IN  Step(w, [ctx |-> [Context("respond", req, <<>>, r.response)
                                  EXCEPT !.response.location = None],
                       db |-> r.db])

PutReceive(w) ==
    /\ inflight[w].pc = "idle"
    /\ \E product_id \in ConcPathIds, content_type \in ConcContentTypes, data \in ConcPayloads :
          LET req == Request("PUT", product_id, content_type, data, NoArgs)
          IN  Step(w, [ctx |-> Context("find", req, <<>>, NoResponse), db |-> Db])

PutFind(w) ==
    /\ inflight[w].pc = "find"
    /\ inflight[w].request.method = "PUT"
    /\ Step(w, update_products_find(inflight[w], Db))

PutDeserialize(w) ==
    /\ inflight[w].pc = "deserialize"
    /\ Step(w, update_products_deserialize(inflight[w], Db))

PutUpdate(w) ==
    /\ inflight[w].pc = "update"
    /\ Step(w, update_products_update(inflight[w], Db))

DeleteReceive(w) ==
    /\ inflight[w].pc = "idle"
    /\ \E product_id \in ConcPathIds :
          LET req == Request("DELETE", product_id, <<>>, NoData, NoArgs)
          IN  Step(w, [ctx |-> Context("find", req, <<>>, NoResponse), db |-> Db])

DeleteFind(w) ==
    /\ inflight[w].pc = "find"
    /\ inflight[w].request.method = "DELETE"
    /\ Step(w, delete_products_find(inflight[w], Db))

DeleteDelete(w) ==
    /\ inflight[w].pc = "delete"
    /\ Step(w, delete_products_delete(inflight[w], Db))

\* The response is sent and the worker's session removed with all it held.
Respond(w) ==
    /\ inflight[w].pc = "respond"
    /\ Step(w, [ctx |-> Idle, db |-> Db])

ConcNext ==
    \/ \E w \in Workers : PostStep(w)
    \/ \E w \in Workers : PutReceive(w)
    \/ \E w \in Workers : PutFind(w)
    \/ \E w \in Workers : PutDeserialize(w)
    \/ \E w \in Workers : PutUpdate(w)
    \/ \E w \in Workers : DeleteReceive(w)
    \/ \E w \in Workers : DeleteFind(w)
    \/ \E w \in Workers : DeleteDelete(w)
    \/ \E w \in Workers : Respond(w)

ConcSpec == Init /\ [][ConcNext]_vars

(***************************************************************************)
(* Properties of requests served side by side (ConcSpec).                  *)
(***************************************************************************)
\* Worker w takes the step at hand.
Moves(w) == inflight'[w] # inflight[w]

StepsAgree ==
    \A w \in Workers :
        LET ctx == inflight[w]
        IN  /\ (ctx.pc = "find" /\ ctx.request.method = "PUT") =>
                 LET f == update_products_find(ctx, Db)
                     d == IF f.ctx.pc = "deserialize"
                          THEN update_products_deserialize(f.ctx, f.db) ELSE f
                     u == IF d.ctx.pc = "update"
                          THEN update_products_update(d.ctx, d.db) ELSE d
                 IN  [response |-> u.ctx.response, db |-> u.db]
                        = update_products(ctx.request, Db)
            /\ (ctx.pc = "find" /\ ctx.request.method = "DELETE") =>
                 LET f == delete_products_find(ctx, Db)
                     d == IF f.ctx.pc = "delete"
                          THEN delete_products_delete(f.ctx, f.db) ELSE f
                 IN  [response |-> d.ctx.response, db |-> d.db]
                        = delete_products(ctx.request, Db)

====
